---- MODULE Spec2Model ----
(***************************************************************************)
(* Model of scheduling_alg.py: the Process burst state machine, the        *)
(* waiting/ready queue transition logic and the FCFS, SJF, Round Robin and *)
(* MLFQ schedule() loops.  One step of the model is one iteration of a     *)
(* scheduler's while loop (an idle tick or a dispatch), or the entry to or *)
(* the return from a schedule() call.                                      *)
(*                                                                         *)
(* Process objects live in the heap `procs`; the queues hold references    *)
(* (indices into procs, which are also the process names).                 *)
(***************************************************************************)
EXTENDS Integers, Sequences, FiniteSets, TLC

\* ---------------------------------------------------------------- bounds
\* Largest number of processes in an input list.
MaxProcs == 3
\* Largest sum of all burst values of an input list.
MaxWork == 3
\* Round Robin is run with every quantum in 1..MaxQuantum.
MaxQuantum == 2

\* Lengths of a well-formed burst sequence: CPU, or CPU I/O CPU.
BurstLens == {1, 3}

\* ------------------------------------------------------ program constants
\* Quantum of MLFQ level 1 and of MLFQ level 2.
Quantum1 == 5
Quantum2 == 10
\* Sentinel of Process.response_time.
NotRun == -1

VARIABLES
    scheduler,      \* the scheduler object whose schedule() is called
    quantum,        \* RoundRobinScheduler.quantum of the running pass
    running,        \* class of the schedule() body now executing
    level,          \* MLFQ level now executing (0 outside MLFQ)
    pc,             \* "init", "loop" or "done"
    procs,          \* heap of Process objects, in input-list order
    ready_queue,
    waiting_queue,
    terminated,
    time,           \* self.time of the running scheduler object
    cpu_util,       \* self.cpu_util of the running scheduler object
    ret_time,       \* local `time` of MLFQScheduler.schedule
    ret_cpu_util,   \* local `cpu_util` of MLFQScheduler.schedule
    self_time,      \* MLFQScheduler's own self.time
    self_cpu_util,  \* MLFQScheduler's own self.cpu_util
    result,         \* the terminated list a schedule() call returned
    idle_ticks,     \* number of idle iterations taken by the running pass
    initial_bursts  \* the burst sequences the input processes were created with

vars == <<scheduler, quantum, running, level, pc, procs, ready_queue,
          waiting_queue, terminated, time, cpu_util, ret_time, ret_cpu_util,
          self_time, self_cpu_util, result, idle_ticks, initial_bursts>>

\* -------------------------------------------------------------- utilities
Min(a, b) == IF a <= b THEN a ELSE b

Range(s) == {s[i] : i \in DOMAIN s}

RECURSIVE SumSeq(_)
SumSeq(s) == IF s = <<>> THEN 0 ELSE Head(s) + SumSeq(Tail(s))

\* Number of occurrences of x in the sequence s.
Count(s, x) == Cardinality({i \in DOMAIN s : s[i] = x})

\* ------------------------------------------------------------- class Process
\* A freshly constructed Process (dataclass defaults).
Process(bursts, name) ==
    [burst_times |-> bursts, process_name |-> name, waiting_time |-> 0,
     turn_around_time |-> 0, response_time |-> NotRun,
     current_burst_index |-> 0, complete |-> FALSE]

\* Process.current_burst (burst_times is 0-indexed in the source).
CurrentBurst(P) ==
    IF P.current_burst_index < Len(P.burst_times)
    THEN P.burst_times[P.current_burst_index + 1]
    ELSE 0

\* Process.advance_burst
AdvanceBurst(P) ==
    [P EXCEPT !.current_burst_index = @ + 1,
              !.complete = (P.current_burst_index + 1 >= Len(P.burst_times))]

\* Mutation: the elapsed time is not clamped to the burst that remains.
ActualTimeUnclamped(P, t) == t

\* The value Process.reduce_current_burst returns.
ActualTime(P, t) ==
    IF P.current_burst_index >= Len(P.burst_times)
    THEN 0
    ELSE Min(t, P.burst_times[P.current_burst_index + 1])

\* Mutation: the burst is never advanced when it reaches zero.
ReduceCurrentBurstNoAdvance(P, t) ==
    IF P.current_burst_index >= Len(P.burst_times)
    THEN P
    ELSE [P EXCEPT !.burst_times[P.current_burst_index + 1] = @ - ActualTime(P, t)]

\* The Process after Process.reduce_current_burst(t).
ReduceCurrentBurst(P, t) ==
    IF P.current_burst_index >= Len(P.burst_times)
    THEN P
    ELSE LET Q == [P EXCEPT !.burst_times[P.current_burst_index + 1] =
                                @ - ActualTime(P, t)]
         IN  IF Q.burst_times[Q.current_burst_index + 1] <= 0
             THEN AdvanceBurst(Q)
             ELSE Q

\* Mutation: the whole elapsed time is charged as waiting time.
WaitStepCharged(P, time_elapsed) ==
    [ReduceCurrentBurst(P, time_elapsed)
        EXCEPT !.waiting_time = @ + time_elapsed]

\* ----------------------------------------------------------- class Scheduler
\* One waiting process after one pass of the loop body of
\* update_waiting_processes.
WaitStep(P, time_elapsed) ==
    [ReduceCurrentBurst(P, time_elapsed)
        EXCEPT !.waiting_time = @ + ActualTime(P, time_elapsed)]

\* Mutation: a process that is complete is not moved back to ready.
UpdateWaitingProcessesKeepComplete(heap, waiting, ready, time_elapsed) ==
    IF waiting = <<>>
    THEN [procs |-> heap, waiting_queue |-> waiting, ready_queue |-> ready]
    ELSE LET heap2 == [p \in DOMAIN heap |->
                          IF p \in Range(waiting)
                          THEN WaitStep(heap[p], time_elapsed)
                          ELSE heap[p]]
             Moved(p) == /\ heap2[p].current_burst_index % 2 = 0
                         /\ ~heap2[p].complete
             Stays(p) == ~Moved(p)
         IN  [procs |-> heap2,
              waiting_queue |-> SelectSeq(waiting, Stays),
              ready_queue |-> ready \o SelectSeq(waiting, Moved)]

\* Mutation: the processes back from I/O go to the head of ready.
UpdateWaitingProcessesFront(heap, waiting, ready, time_elapsed) ==
    IF waiting = <<>>
    THEN [procs |-> heap, waiting_queue |-> waiting, ready_queue |-> ready]
    ELSE LET heap2 == [p \in DOMAIN heap |->
                          IF p \in Range(waiting)
                          THEN WaitStep(heap[p], time_elapsed)
                          ELSE heap[p]]
             Moved(p) == heap2[p].current_burst_index % 2 = 0
             Stays(p) == ~Moved(p)
         IN  [procs |-> heap2,
              waiting_queue |-> SelectSeq(waiting, Stays),
              ready_queue |-> SelectSeq(waiting, Moved) \o ready]

\* Mutation: the processes moved to ready are not removed from waiting.
UpdateWaitingProcessesCopy(heap, waiting, ready, time_elapsed) ==
    IF waiting = <<>>
    THEN [procs |-> heap, waiting_queue |-> waiting, ready_queue |-> ready]
    ELSE LET heap2 == [p \in DOMAIN heap |->
                          IF p \in Range(waiting)
                          THEN WaitStep(heap[p], time_elapsed)
                          ELSE heap[p]]
             Moved(p) == heap2[p].current_burst_index % 2 = 0
         IN  [procs |-> heap2,
              waiting_queue |-> waiting,
              ready_queue |-> ready \o SelectSeq(waiting, Moved)]

\* Scheduler.update_waiting_processes: the heap and the two queues after
\* the call.
UpdateWaitingProcesses(heap, waiting, ready, time_elapsed) ==
    IF waiting = <<>>
    THEN [procs |-> heap, waiting_queue |-> waiting, ready_queue |-> ready]
    ELSE LET heap2 == [p \in DOMAIN heap |->
                          IF p \in Range(waiting)
                          THEN WaitStep(heap[p], time_elapsed)
                          ELSE heap[p]]
             Moved(p) == heap2[p].current_burst_index % 2 = 0
             Stays(p) == ~Moved(p)
         IN  [procs |-> heap2,
              waiting_queue |-> SelectSeq(waiting, Stays),
              ready_queue |-> ready \o SelectSeq(waiting, Moved)]

\* Mutation: the process is not put on the waiting queue.
AddToWaitingDrop(waiting, p) == waiting

\* Scheduler.add_to_waiting
AddToWaiting(waiting, p) == Append(waiting, p)

\* Mutation: the sentinel is not tested, every dispatch overwrites.
FirstRunAlways(P, now) == [P EXCEPT !.response_time = now]

\* "Set response time if first time running"
FirstRun(P, now) ==
    IF P.response_time = NotRun THEN [P EXCEPT !.response_time = now] ELSE P

\* Mutation: turnaround excludes the time spent in I/O.
FinishNoIO(P, now) ==
    [P EXCEPT !.complete = TRUE, !.turn_around_time = now - P.waiting_time]

\* Mutation: turnaround is counted from the first dispatch.
FinishSinceFirstRun(P, now) ==
    [P EXCEPT !.complete = TRUE, !.turn_around_time = now - P.response_time]

\* "process.complete = True; process.turn_around_time = self.time"
Finish(P, now) == [P EXCEPT !.complete = TRUE, !.turn_around_time = now]

\* The bursts of the list b at the 0-based positions of parity par.
BurstsOfParity(b, par) ==
    [i \in DOMAIN b |-> IF (i - 1) % 2 = par THEN b[i] ELSE 0]

\* Process.total_burst_time: the sum over range(0, len(burst_times), 2).
TotalBurstTime(b) == SumSeq(BurstsOfParity(b, 0))

\* Process.total_io_time: the sum over range(1, len(burst_times), 2).
TotalIoTime(b) == SumSeq(BurstsOfParity(b, 1))

\* The loop condition `while ready_queue or waiting_queue`.
LoopRuns == ready_queue # <<>> \/ waiting_queue # <<>>

\* ----------------------------------------------------------------- inputs
\* All burst sequences of length len whose values sum to at most k.
RECURSIVE BurstSeqs(_, _)
BurstSeqs(len, k) ==
    IF len = 0 THEN {<<>>}
    ELSE UNION {{<<v>> \o s : s \in BurstSeqs(len - 1, k - v)} : v \in 0..k}

\* All lists of n well-formed burst sequences with total work at most k.
RECURSIVE Workloads(_, _)
Workloads(n, k) ==
    IF n = 0 THEN {<<>>}
    ELSE UNION {UNION {{<<b>> \o rest : rest \in Workloads(n - 1, k - SumSeq(b))}
                       : b \in BurstSeqs(len, k)} : len \in BurstLens}

Inputs == UNION {Workloads(n, MaxWork) : n \in 0..MaxProcs}

\* The same lists with a first CPU burst that outlasts the level-1 quantum.
LongInputs ==
    {[w EXCEPT ![1][1] = @ + Quantum1] : w \in {v \in Inputs : v # <<>> /\ v[1][1] > 0}}

\* create_test_processes: one Process per burst sequence.
CreateProcesses(w) == [i \in DOMAIN w |-> Process(w[i], i)]

\* An upper bound on the clock of every run on these inputs (all CPU work
\* plus one idle tick per unit of I/O and per empty I/O burst); the loop
\* actions are guarded by it so that a variant of the code that does not
\* terminate still has finitely many states.
TimeCap == MaxWork + Quantum1 + 2 * MaxProcs + 1

\* The inputs of the worked scenarios: A = [4], B = [2] in ready order
\* [A, B]; A = [5] alone; A = [2, 3, 2] alone.
ScenarioA == <<(<<4>>), (<<2>>)>>
ScenarioB == <<(<<5>>)>>
ScenarioC == <<(<<2, 3, 2>>)>>
ScenarioInputs == {ScenarioA, ScenarioB, ScenarioC}

\* Lengths of a malformed burst sequence: empty, or ending in an I/O burst.
MalformedLens == {0, 2}

\* All lists of n burst sequences with lengths in lens and total work at
\* most k.
RECURSIVE WorkloadsOver(_, _, _)
WorkloadsOver(lens, n, k) ==
    IF n = 0 THEN {<<>>}
    ELSE UNION {UNION {{<<b>> \o rest : rest \in WorkloadsOver(lens, n - 1, k - SumSeq(b))}
                       : b \in BurstSeqs(len, k)} : len \in lens}

\* The lists of fewer than MaxProcs processes in which some process is
\* malformed.
MalformedInputs ==
    {w \in UNION {WorkloadsOver(BurstLens \cup MalformedLens, n, MaxWork) :
                     n \in 1..(MaxProcs - 1)} :
        \E i \in DOMAIN w : Len(w[i]) \in MalformedLens}

\* The state after the scheduler object and the processes of one input
\* list out of W (for MLFQ: out of W and L) have been constructed.
Created(W, L) ==
    /\ scheduler \in {"FCFS", "SJF", "RR", "MLFQ"}
    /\ quantum \in 0..MaxQuantum
    /\ (scheduler = "RR") <=> (quantum > 0)
    /\ initial_bursts \in IF scheduler = "MLFQ" THEN W \cup L ELSE W
    /\ procs = CreateProcesses(initial_bursts)
    /\ running = "none"
    /\ level = 0
    /\ pc = "init"
    /\ ready_queue = <<>>
    /\ waiting_queue = <<>>
    /\ terminated = <<>>
    /\ time = 0
    /\ cpu_util = 0
    /\ ret_time = 0
    /\ ret_cpu_util = 0
    /\ self_time = 0
    /\ self_cpu_util = 0
    /\ result = <<>>
    /\ idle_ticks = 0

Init == Created(Inputs \cup ScenarioInputs, LongInputs)

\* The same with malformed input lists.
InitMalformed == Created(MalformedInputs, {})

\* The argument `processes`: the input list, as references into the heap.
Processes == [i \in DOMAIN procs |-> i]

\* -------------------------------------------------------------- class FCFS
\* Entry of FCFSScheduler.schedule(ps): the clock is reset and the queues
\* are created.
EnterFCFS(ps) ==
    /\ time' = 0
    /\ cpu_util' = 0
    /\ ready_queue' = ps
    /\ waiting_queue' = <<>>
    /\ terminated' = <<>>
    /\ idle_ticks' = 0
    /\ running' = "FCFS"
    /\ pc' = "loop"

FCFSStart ==
    /\ pc = "init"
    /\ scheduler = "FCFS"
    /\ EnterFCFS(Processes)
    /\ UNCHANGED <<scheduler, quantum, level, procs, ret_time, ret_cpu_util,
                   self_time, self_cpu_util, result, initial_bursts>>

\* Mutation: the idle tick is charged to the CPU.
FCFSIdleBusy ==
    /\ pc = "loop"
    /\ running = "FCFS"
    /\ ready_queue = <<>>
    /\ waiting_queue # <<>>
    /\ time < TimeCap
    /\ LET u == UpdateWaitingProcesses(procs, waiting_queue, ready_queue, 1)
       IN  /\ time' = time + 1
           /\ cpu_util' = cpu_util + 1
           /\ procs' = u.procs
           /\ waiting_queue' = u.waiting_queue
           /\ ready_queue' = u.ready_queue
    /\ idle_ticks' = idle_ticks + 1
    /\ UNCHANGED <<scheduler, quantum, running, level, pc, terminated,
                   ret_time, ret_cpu_util, self_time, self_cpu_util, result, initial_bursts>>

\* One idle iteration: `if not ready_queue: ... continue`.
FCFSIdle ==
    /\ pc = "loop"
    /\ running = "FCFS"
    /\ ready_queue = <<>>
    /\ waiting_queue # <<>>
    /\ time < TimeCap
    /\ LET u == UpdateWaitingProcesses(procs, waiting_queue, ready_queue, 1)
       IN  /\ time' = time + 1
           /\ procs' = u.procs
           /\ waiting_queue' = u.waiting_queue
           /\ ready_queue' = u.ready_queue
    /\ idle_ticks' = idle_ticks + 1
    /\ UNCHANGED <<scheduler, quantum, running, level, pc, terminated, cpu_util,
                   ret_time, ret_cpu_util, self_time, self_cpu_util, result, initial_bursts>>

\* One dispatching iteration: popleft, run the whole CPU burst, update the
\* waiting processes, then terminate the process or send it to I/O.
FCFSDispatch ==
    /\ pc = "loop"
    /\ running = "FCFS"
    /\ ready_queue # <<>>
    /\ time < TimeCap
    /\ LET process == Head(ready_queue)
           P1 == FirstRun(procs[process], time)
           burst_time == CurrentBurst(P1)
           now == time + burst_time
           heap1 == [procs EXCEPT ![process] = AdvanceBurst(P1)]
           u == UpdateWaitingProcesses(heap1, waiting_queue, Tail(ready_queue),
                                       burst_time)
           P2 == u.procs[process]
       IN  /\ time' = now
           /\ cpu_util' = cpu_util + burst_time
           /\ ready_queue' = u.ready_queue
           /\ IF P2.current_burst_index >= Len(P2.burst_times)
              THEN /\ procs' = [u.procs EXCEPT ![process] = Finish(P2, now)]
                   /\ terminated' = Append(terminated, process)
                   /\ waiting_queue' = u.waiting_queue
              ELSE /\ procs' = u.procs
                   /\ waiting_queue' = AddToWaiting(u.waiting_queue, process)
                   /\ terminated' = terminated
    /\ UNCHANGED <<scheduler, quantum, running, level, pc, ret_time,
                   ret_cpu_util, self_time, self_cpu_util, result, idle_ticks, initial_bursts>>

\* `return terminated` of a top-level FCFS run.
FCFSReturn ==
    /\ pc = "loop"
    /\ scheduler = "FCFS"
    /\ running = "FCFS"
    /\ ~LoopRuns
    /\ result' = terminated
    /\ pc' = "done"
    /\ UNCHANGED <<scheduler, quantum, running, level, procs, ready_queue,
                   waiting_queue, terminated, time, cpu_util, ret_time,
                   ret_cpu_util, self_time, self_cpu_util, idle_ticks, initial_bursts>>

\* --------------------------------------------------------------- class SJF
\* The list s, sorted by current burst, with p inserted behind every
\* element whose current burst is not larger (list.sort is stable).
RECURSIVE InsertByBurst(_, _, _)
InsertByBurst(heap, s, p) ==
    IF s = <<>> THEN <<p>>
    ELSE IF CurrentBurst(heap[Head(s)]) <= CurrentBurst(heap[p])
         THEN <<Head(s)>> \o InsertByBurst(heap, Tail(s), p)
         ELSE <<p>> \o s

\* Mutation: the queue is left in arrival order.
SortByBurstSkipped(heap, q) == q

\* `temp.sort(key=lambda p: p.current_burst)` and the refill of the queue.
RECURSIVE SortByBurst(_, _)
SortByBurst(heap, q) ==
    IF q = <<>> THEN <<>>
    ELSE InsertByBurst(heap, SortByBurst(heap, SubSeq(q, 1, Len(q) - 1)), q[Len(q)])

SJFStart ==
    /\ pc = "init"
    /\ scheduler = "SJF"
    /\ time' = 0
    /\ cpu_util' = 0
    /\ ready_queue' = SortByBurst(procs, Processes)
    /\ waiting_queue' = <<>>
    /\ terminated' = <<>>
    /\ idle_ticks' = 0
    /\ running' = "SJF"
    /\ pc' = "loop"
    /\ UNCHANGED <<scheduler, quantum, level, procs, ret_time, ret_cpu_util,
                   self_time, self_cpu_util, result, initial_bursts>>

\* Mutation: the idle tick passes the clock as the elapsed time.
SJFIdleClock ==
    /\ pc = "loop"
    /\ running = "SJF"
    /\ ready_queue = <<>>
    /\ waiting_queue # <<>>
    /\ time < TimeCap
    /\ LET u == UpdateWaitingProcesses(procs, waiting_queue, ready_queue,
                                       time + 1)
       IN  /\ time' = time + 1
           /\ procs' = u.procs
           /\ waiting_queue' = u.waiting_queue
           /\ ready_queue' = SortByBurst(u.procs, u.ready_queue)
    /\ idle_ticks' = idle_ticks + 1
    /\ UNCHANGED <<scheduler, quantum, running, level, pc, terminated, cpu_util,
                   ret_time, ret_cpu_util, self_time, self_cpu_util, result, initial_bursts>>

\* One idle iteration, with its re-sort of the ready queue.
SJFIdle ==
    /\ pc = "loop"
    /\ running = "SJF"
    /\ ready_queue = <<>>
    /\ waiting_queue # <<>>
    /\ time < TimeCap
    /\ LET u == UpdateWaitingProcesses(procs, waiting_queue, ready_queue, 1)
       IN  /\ time' = time + 1
           /\ procs' = u.procs
           /\ waiting_queue' = u.waiting_queue
           /\ ready_queue' = SortByBurst(u.procs, u.ready_queue)
    /\ idle_ticks' = idle_ticks + 1
    /\ UNCHANGED <<scheduler, quantum, running, level, pc, terminated, cpu_util,
                   ret_time, ret_cpu_util, self_time, self_cpu_util, result, initial_bursts>>

\* One dispatching iteration, with its re-sort of the ready queue.
SJFDispatch ==
    /\ pc = "loop"
    /\ running = "SJF"
    /\ ready_queue # <<>>
    /\ time < TimeCap
    /\ LET process == Head(ready_queue)
           P1 == FirstRun(procs[process], time)
           burst_time == CurrentBurst(P1)
           now == time + burst_time
           heap1 == [procs EXCEPT ![process] = AdvanceBurst(P1)]
           u == UpdateWaitingProcesses(heap1, waiting_queue, Tail(ready_queue),
                                       burst_time)
           P2 == u.procs[process]
       IN  /\ time' = now
           /\ cpu_util' = cpu_util + burst_time
           /\ ready_queue' = SortByBurst(u.procs, u.ready_queue)
           /\ IF P2.current_burst_index >= Len(P2.burst_times)
              THEN /\ procs' = [u.procs EXCEPT ![process] = Finish(P2, now)]
                   /\ terminated' = Append(terminated, process)
                   /\ waiting_queue' = u.waiting_queue
              ELSE /\ procs' = u.procs
                   /\ waiting_queue' = AddToWaiting(u.waiting_queue, process)
                   /\ terminated' = terminated
    /\ UNCHANGED <<scheduler, quantum, running, level, pc, ret_time,
                   ret_cpu_util, self_time, self_cpu_util, result, idle_ticks, initial_bursts>>

SJFReturn ==
    /\ pc = "loop"
    /\ scheduler = "SJF"
    /\ running = "SJF"
    /\ ~LoopRuns
    /\ result' = terminated
    /\ pc' = "done"
    /\ UNCHANGED <<scheduler, quantum, running, level, procs, ready_queue,
                   waiting_queue, terminated, time, cpu_util, ret_time,
                   ret_cpu_util, self_time, self_cpu_util, idle_ticks, initial_bursts>>

\* ------------------------------------------------------- class RoundRobin
\* Entry of RoundRobinScheduler(q).schedule(ps, start_time, start_cpu_util).
EnterRR(q, ps, start_time, start_cpu_util) ==
    /\ quantum' = q
    /\ time' = start_time
    /\ cpu_util' = start_cpu_util
    /\ ready_queue' = ps
    /\ waiting_queue' = <<>>
    /\ terminated' = <<>>
    /\ idle_ticks' = 0
    /\ running' = "RR"
    /\ pc' = "loop"

RRStart ==
    /\ pc = "init"
    /\ scheduler = "RR"
    /\ EnterRR(quantum, Processes, 0, 0)
    /\ UNCHANGED <<scheduler, level, procs, ret_time, ret_cpu_util, self_time,
                   self_cpu_util, result, initial_bursts>>

RRIdle ==
    /\ pc = "loop"
    /\ running = "RR"
    /\ ready_queue = <<>>
    /\ waiting_queue # <<>>
    /\ time < TimeCap
    /\ LET u == UpdateWaitingProcesses(procs, waiting_queue, ready_queue, 1)
       IN  /\ time' = time + 1
           /\ procs' = u.procs
           /\ waiting_queue' = u.waiting_queue
           /\ ready_queue' = u.ready_queue
    /\ idle_ticks' = idle_ticks + 1
    /\ UNCHANGED <<scheduler, quantum, running, level, pc, terminated, cpu_util,
                   ret_time, ret_cpu_util, self_time, self_cpu_util, result, initial_bursts>>

\* Mutation: a burst equal to the quantum is preempted too.
PreemptsAtQuantum(P, q) == CurrentBurst(P) >= q

\* `if process.current_burst > self.quantum`
Preempts(P, q) == CurrentBurst(P) > q

\* Mutation: a preempted burst keeps its length.
UseQuantumKeepBurst(P, q) == P

\* `process.burst_times[process.current_burst_index] -= self.quantum`
UseQuantum(P, q) == [P EXCEPT !.burst_times[P.current_burst_index + 1] = @ - q]

\* Mutation: a slice that completes the burst is charged as a whole quantum.
RRDispatchWholeQuantum ==
    /\ pc = "loop"
    /\ running = "RR"
    /\ ready_queue # <<>>
    /\ time < TimeCap
    /\ LET process == Head(ready_queue)
           P1 == FirstRun(procs[process], time)
       IN  IF Preempts(P1, quantum)
           THEN LET heap1 == [procs EXCEPT ![process] = UseQuantum(P1, quantum)]
                    u == UpdateWaitingProcesses(heap1, waiting_queue,
                             Append(Tail(ready_queue), process), quantum)
                IN  /\ time' = time + quantum
                    /\ cpu_util' = cpu_util + quantum
                    /\ procs' = u.procs
                    /\ ready_queue' = u.ready_queue
                    /\ waiting_queue' = u.waiting_queue
                    /\ terminated' = terminated
           ELSE LET burst_time == CurrentBurst(P1)
                    now == time + burst_time
                    heap1 == [procs EXCEPT ![process] = AdvanceBurst(P1)]
                    u == UpdateWaitingProcesses(heap1, waiting_queue,
                                                Tail(ready_queue), burst_time)
                    P2 == u.procs[process]
                IN  /\ time' = now
                    /\ cpu_util' = cpu_util + quantum
                    /\ ready_queue' = u.ready_queue
                    /\ IF P2.current_burst_index >= Len(P2.burst_times)
                       THEN /\ procs' = [u.procs EXCEPT ![process] = Finish(P2, now)]
                            /\ terminated' = Append(terminated, process)
                            /\ waiting_queue' = u.waiting_queue
                       ELSE /\ procs' = u.procs
                            /\ waiting_queue' = AddToWaiting(u.waiting_queue, process)
                            /\ terminated' = terminated
    /\ UNCHANGED <<scheduler, quantum, running, level, pc, ret_time,
                   ret_cpu_util, self_time, self_cpu_util, result, idle_ticks, initial_bursts>>

\* One dispatching iteration: a full quantum and back to the ready queue,
\* or the rest of the burst and on to I/O or termination.
RRDispatch ==
    /\ pc = "loop"
    /\ running = "RR"
    /\ ready_queue # <<>>
    /\ time < TimeCap
    /\ LET process == Head(ready_queue)
           P1 == FirstRun(procs[process], time)
       IN  IF Preempts(P1, quantum)
           THEN LET heap1 == [procs EXCEPT ![process] = UseQuantum(P1, quantum)]
                    u == UpdateWaitingProcesses(heap1, waiting_queue,
                             Append(Tail(ready_queue), process), quantum)
                IN  /\ time' = time + quantum
                    /\ cpu_util' = cpu_util + quantum
                    /\ procs' = u.procs
                    /\ ready_queue' = u.ready_queue
                    /\ waiting_queue' = u.waiting_queue
                    /\ terminated' = terminated
           ELSE LET burst_time == CurrentBurst(P1)
                    now == time + burst_time
                    heap1 == [procs EXCEPT ![process] = AdvanceBurst(P1)]
                    u == UpdateWaitingProcesses(heap1, waiting_queue,
                                                Tail(ready_queue), burst_time)
                    P2 == u.procs[process]
                IN  /\ time' = now
                    /\ cpu_util' = cpu_util + burst_time
                    /\ ready_queue' = u.ready_queue
                    /\ IF P2.current_burst_index >= Len(P2.burst_times)
                       THEN /\ procs' = [u.procs EXCEPT ![process] = Finish(P2, now)]
                            /\ terminated' = Append(terminated, process)
                            /\ waiting_queue' = u.waiting_queue
                       ELSE /\ procs' = u.procs
                            /\ waiting_queue' = AddToWaiting(u.waiting_queue, process)
                            /\ terminated' = terminated
    /\ UNCHANGED <<scheduler, quantum, running, level, pc, ret_time,
                   ret_cpu_util, self_time, self_cpu_util, result, idle_ticks, initial_bursts>>

\* One iteration of the Round Robin loop with quantum q, as a function of
\* the heap, the two queues and the clock.
RRIteration(q, st) ==
    IF st.ready_queue = <<>>
    THEN LET u == UpdateWaitingProcesses(st.procs, st.waiting_queue,
                                         st.ready_queue, 1)
         IN  [procs |-> u.procs, ready_queue |-> u.ready_queue,
              waiting_queue |-> u.waiting_queue, time |-> st.time + 1]
    ELSE LET process == Head(st.ready_queue)
             P1 == FirstRun(st.procs[process], st.time)
         IN  IF Preempts(P1, q)
             THEN LET heap1 == [st.procs EXCEPT ![process] = UseQuantum(P1, q)]
                      u == UpdateWaitingProcesses(heap1, st.waiting_queue,
                               Append(Tail(st.ready_queue), process), q)
                  IN  [procs |-> u.procs, ready_queue |-> u.ready_queue,
                       waiting_queue |-> u.waiting_queue, time |-> st.time + q]
             ELSE LET burst_time == CurrentBurst(P1)
                      now == st.time + burst_time
                      heap1 == [st.procs EXCEPT ![process] = AdvanceBurst(P1)]
                      u == UpdateWaitingProcesses(heap1, st.waiting_queue,
                               Tail(st.ready_queue), burst_time)
                      P2 == u.procs[process]
                  IN  IF P2.current_burst_index >= Len(P2.burst_times)
                      THEN [procs |-> [u.procs EXCEPT ![process] = Finish(P2, now)],
                            ready_queue |-> u.ready_queue,
                            waiting_queue |-> u.waiting_queue, time |-> now]
                      ELSE [procs |-> u.procs, ready_queue |-> u.ready_queue,
                            waiting_queue |-> AddToWaiting(u.waiting_queue, process),
                            time |-> now]

\* The heap when the Round Robin loop with quantum q, started in st, ends.
RECURSIVE RRLoop(_, _)
RRLoop(q, st) ==
    IF st.ready_queue = <<>> /\ st.waiting_queue = <<>>
    THEN st.procs
    ELSE RRLoop(q, RRIteration(q, st))

\* The processes after RoundRobinScheduler(q).schedule(ps) on new processes
\* with the bursts w.
RRRun(q, w) ==
    RRLoop(q, [procs |-> CreateProcesses(w),
               ready_queue |-> [i \in 1..Len(w) |-> i],
               waiting_queue |-> <<>>, time |-> 0])

\* `return (waiting_queue, ready_queue, self.time, self.cpu_util)` of a
\* top-level Round Robin run; the local list `terminated` is not returned.
RRReturn ==
    /\ pc = "loop"
    /\ scheduler = "RR"
    /\ running = "RR"
    /\ ~LoopRuns
    /\ ret_time' = time
    /\ ret_cpu_util' = cpu_util
    /\ pc' = "done"
    /\ UNCHANGED <<scheduler, quantum, running, level, procs, ready_queue,
                   waiting_queue, terminated, time, cpu_util, self_time,
                   self_cpu_util, result, idle_ticks, initial_bursts>>

\* -------------------------------------------------------------- class MLFQ
\* Level 1: rr1 = RoundRobinScheduler(5); rr1.schedule(processes).
MLFQStart ==
    /\ pc = "init"
    /\ scheduler = "MLFQ"
    /\ level' = 1
    /\ EnterRR(Quantum1, Processes, 0, 0)
    /\ UNCHANGED <<scheduler, procs, ret_time, ret_cpu_util, self_time,
                   self_cpu_util, result, initial_bursts>>

\* Mutation: level 2 is handed the whole process list again.
MLFQLevel2Requeue ==
    /\ pc = "loop"
    /\ scheduler = "MLFQ"
    /\ level = 1
    /\ ~LoopRuns
    /\ ret_time' = time
    /\ ret_cpu_util' = cpu_util
    /\ level' = 2
    /\ EnterRR(Quantum2, Processes, time, cpu_util)
    /\ UNCHANGED <<scheduler, procs, self_time, self_cpu_util, result, initial_bursts>>

\* rr1.schedule returns its queues and counters; level 2 is
\* rr2.schedule(list(ready_queue), time, cpu_util) with quantum 10.
MLFQLevel2 ==
    /\ pc = "loop"
    /\ scheduler = "MLFQ"
    /\ level = 1
    /\ ~LoopRuns
    /\ ret_time' = time
    /\ ret_cpu_util' = cpu_util
    /\ level' = 2
    /\ EnterRR(Quantum2, ready_queue, time, cpu_util)
    /\ UNCHANGED <<scheduler, procs, self_time, self_cpu_util, result, initial_bursts>>

\* rr2.schedule returns; self and fcfs are seeded with its counters, then
\* level 3 is fcfs.schedule(list(ready_queue)), which resets fcfs.time and
\* fcfs.cpu_util on entry.
MLFQLevel3 ==
    /\ pc = "loop"
    /\ scheduler = "MLFQ"
    /\ level = 2
    /\ ~LoopRuns
    /\ ret_time' = time
    /\ ret_cpu_util' = cpu_util
    /\ self_time' = time
    /\ self_cpu_util' = cpu_util
    /\ level' = 3
    /\ EnterFCFS(ready_queue)
    /\ UNCHANGED <<scheduler, quantum, procs, result, initial_bursts>>

\* fcfs.schedule returns its terminated list; self.time = fcfs.time,
\* self.cpu_util = fcfs.cpu_util, return terminated.
MLFQReturn ==
    /\ pc = "loop"
    /\ scheduler = "MLFQ"
    /\ level = 3
    /\ ~LoopRuns
    /\ self_time' = time
    /\ self_cpu_util' = cpu_util
    /\ result' = terminated
    /\ pc' = "done"
    /\ UNCHANGED <<scheduler, quantum, running, level, procs, ready_queue,
                   waiting_queue, terminated, time, cpu_util, ret_time,
                   ret_cpu_util, idle_ticks, initial_bursts>>

Next ==
    \/ FCFSStart \/ FCFSIdle \/ FCFSDispatch \/ FCFSReturn
    \/ SJFStart \/ SJFIdle \/ SJFDispatch \/ SJFReturn
    \/ RRStart \/ RRIdle \/ RRDispatch \/ RRReturn
    \/ MLFQStart \/ MLFQLevel2 \/ MLFQLevel3 \/ MLFQReturn

Spec == Init /\ [][Next]_vars

MalformedSpec == InitMalformed /\ [][Next]_vars

\* The loop is sequential code: an enabled step is eventually taken.
FairSpec == Spec /\ WF_vars(Next)

FairMalformedSpec == MalformedSpec /\ WF_vars(Next)

\* ------------------------------------------------------------ properties
PIDs == DOMAIN procs

\* A run of FCFSScheduler, SJFScheduler or RoundRobinScheduler on its own.
Plain == scheduler \in {"FCFS", "SJF", "RR"}

\* The next step of the loop is a dispatch / an idle tick.
AtDispatch == pc = "loop" /\ ready_queue # <<>>
AtIdle == pc = "loop" /\ ready_queue = <<>> /\ waiting_queue # <<>>

\* The list s holds every input process exactly once.
EachOnce(s) == Len(s) = Len(procs) /\ \A p \in PIDs : Count(s, p) = 1

\* The guard on TimeCap never stops a run of the code.
TimeCapNotReached == (pc = "loop" /\ LoopRuns) => time < TimeCap

\* C1: when FCFSScheduler.schedule or SJFScheduler.schedule returns, the
\* returned terminated list holds every input process exactly once.
Conservation ==
    (pc = "done" /\ scheduler \in {"FCFS", "SJF"}) => EachOnce(result)

ConservationWitness ==
    /\ pc = "done"
    /\ scheduler = "SJF"
    /\ Len(result) = 3
    /\ \E p \in PIDs : procs[p].waiting_time > 0
    /\ result # Processes

\* C2: the list MLFQScheduler.schedule returns for a non-empty input holds
\* every input process exactly once.
MLFQOutputContract ==
    (pc = "done" /\ scheduler = "MLFQ" /\ Len(procs) >= 1) => EachOnce(result)

\* C3: when MLFQScheduler.schedule returns, its time and cpu_util are at
\* least the clock and utilization the Round Robin passes reached.
MLFQClockCarryOver ==
    (pc = "done" /\ scheduler = "MLFQ") =>
        (self_time >= ret_time /\ self_cpu_util >= ret_cpu_util)

\* C4: turn_around_time is written (and the process appended to terminated)
\* at most once, exactly in the step in which the burst index first reaches
\* the number of bursts, and the value written is the clock at the end of
\* that step.
TurnaroundOnce ==
    [][Plain =>
        \A p \in PIDs :
            LET P == procs[p]
                Q == procs'[p]
                written == \/ Q.turn_around_time # P.turn_around_time
                           \/ Count(terminated', p) > Count(terminated, p)
                finishes == /\ P.current_burst_index < Len(P.burst_times)
                            /\ Q.current_burst_index = Len(Q.burst_times)
            IN  /\ written <=> finishes
                /\ finishes => /\ Q.turn_around_time = time'
                               /\ Q.complete
                               /\ Count(terminated, p) = 0
                               /\ Count(terminated', p) = 1]_vars

TurnaroundWitness ==
    /\ Plain
    /\ pc = "loop"
    /\ LoopRuns
    /\ \E p \in PIDs : /\ procs[p].complete
                       /\ procs[p].waiting_time > 0
                       /\ procs[p].turn_around_time = time
                       /\ procs[p].turn_around_time > procs[p].waiting_time

\* C5: response_time keeps the sentinel until the first dispatch, is set at
\* that dispatch to the clock before the burst runs, and never changes
\* afterwards.
ResponseOnce ==
    [][Plain =>
        \A p \in PIDs :
            LET P == procs[p]
                Q == procs'[p]
                dispatched == AtDispatch /\ Head(ready_queue) = p
            IN  /\ P.response_time # NotRun => Q.response_time = P.response_time
                /\ (P.response_time = NotRun /\ dispatched) =>
                       (Q.response_time = time /\ Q.response_time # NotRun)
                /\ (P.response_time = NotRun /\ ~dispatched) =>
                       Q.response_time = NotRun]_vars

ResponseWitness ==
    /\ Plain
    /\ pc = "done"
    /\ \E p, q \in PIDs : /\ procs[p].response_time = 0
                          /\ procs[p].turn_around_time > 0
                          /\ Len(procs[p].burst_times) = 3
                          /\ procs[q].response_time > 0

\* The CPU time the dispatch about to happen consumes.
Slice ==
    LET b == procs[Head(ready_queue)].burst_times[
                 procs[Head(ready_queue)].current_burst_index + 1]
    IN  IF running = "RR" /\ b > quantum THEN quantum ELSE b

\* C6: the clock never decreases; a dispatch advances it (and the
\* utilization) by exactly the CPU time it consumes, the whole current burst
\* or the quantum of a preemption; an idle tick advances it by exactly 1;
\* no other step moves it.
ClockSteps ==
    [][Plain =>
        /\ time' >= time
        /\ AtDispatch =>
              /\ time' = time + Slice
              /\ cpu_util' = cpu_util + Slice
              /\ LET h == Head(ready_queue)
                 IN  IF procs'[h].current_burst_index = procs[h].current_burst_index
                     THEN SumSeq(procs'[h].burst_times) =
                              SumSeq(procs[h].burst_times) - Slice
                     ELSE procs'[h].current_burst_index =
                              procs[h].current_burst_index + 1
        /\ AtIdle => time' = time + 1
        /\ ~(AtDispatch \/ AtIdle) => time' = time]_vars

ClockWitness ==
    /\ Plain
    /\ pc = "loop"
    /\ idle_ticks > 0
    /\ cpu_util > 1
    /\ \E p \in PIDs : p \in Range(ready_queue) /\ procs[p].response_time > 0

\* C7: cpu_util <= time in every state of a run started from 0, and at the
\* end of the run they are equal exactly if no idle tick was taken.
UtilizationBound ==
    Plain => /\ cpu_util <= time
             /\ pc = "done" => (cpu_util = time <=> idle_ticks = 0)

UtilizationWitness ==
    /\ Plain
    /\ pc = "done"
    /\ idle_ticks > 0
    /\ cpu_util > 0
    /\ cpu_util < time

\* C8: at every loop boundary of an SJF run, so before every dispatch, the
\* ready queue is sorted ascending by current burst.
SJFSorted ==
    (running = "SJF" /\ pc = "loop") =>
        \A i, j \in DOMAIN ready_queue :
            i < j => CurrentBurst(procs[ready_queue[i]]) <=
                     CurrentBurst(procs[ready_queue[j]])

SJFSortedWitness ==
    /\ running = "SJF"
    /\ pc = "loop"
    /\ Len(ready_queue) = 2
    /\ procs[ready_queue[1]].current_burst_index = 2
    /\ procs[ready_queue[2]].current_burst_index = 2
    /\ ready_queue[1] > ready_queue[2]
    /\ CurrentBurst(procs[ready_queue[1]]) < CurrentBurst(procs[ready_queue[2]])

\* C9: a Round Robin dispatch never advances the clock or shortens the
\* burst by more than the quantum; a burst longer than the quantum loses
\* exactly the quantum, keeps its index and is requeued in ready; a burst of
\* at most the quantum is consumed whole, the index advances, and the
\* process goes to waiting or terminated, never to ready.
RRQuantumBound ==
    [][(running = "RR" /\ AtDispatch) =>
        LET h == Head(ready_queue)
            P == procs[h]
            Q == procs'[h]
            b == P.burst_times[P.current_burst_index + 1]
        IN  /\ time' - time <= quantum
            /\ SumSeq(P.burst_times) - SumSeq(Q.burst_times) <= quantum
            /\ b > quantum =>
                  /\ time' = time + quantum
                  /\ Q.current_burst_index = P.current_burst_index
                  /\ Q.burst_times[Q.current_burst_index + 1] = b - quantum
                  /\ Count(ready_queue', h) = 1
                  /\ Count(waiting_queue', h) = 0
                  /\ Count(terminated', h) = 0
            /\ b <= quantum =>
                  /\ time' = time + b
                  /\ Q.current_burst_index = P.current_burst_index + 1
                  /\ Count(ready_queue', h) = 0
                  /\ Count(waiting_queue', h) + Count(terminated', h) = 1]_vars

RRQuantumWitness ==
    /\ scheduler = "RR"
    /\ quantum = 2
    /\ pc = "loop"
    /\ time = 2
    /\ \E p \in PIDs : /\ p \in Range(ready_queue)
                       /\ procs[p].response_time = 0
                       /\ procs[p].current_burst_index = 0
                       /\ procs[p].burst_times[1] = 1

\* C10: every FCFS, SJF and Round Robin run on well-formed input reaches
\* the state with both queues empty and every process complete.
Termination ==
    Plain => <>(/\ pc = "done"
                /\ ready_queue = <<>>
                /\ waiting_queue = <<>>
                /\ \A p \in PIDs : procs[p].complete)

TerminationWitness ==
    /\ scheduler = "RR"
    /\ pc = "done"
    /\ Len(procs) = 3
    /\ idle_ticks > 0
    /\ \A p \in PIDs : procs[p].complete /\ procs[p].response_time # NotRun

\* Some input process has an empty burst sequence or one that ends in an
\* I/O burst.
HasMalformed ==
    \E i \in DOMAIN initial_bursts : Len(initial_bursts[i]) % 2 = 0

\* C11 as stated: with a malformed input process, an FCFS, SJF or Round
\* Robin run never reaches the state with ready and waiting both empty.
MalformedNeverConverges ==
    (Plain /\ HasMalformed /\ pc # "init") => LoopRuns

\* C11 as amended: with a malformed input process the run still reaches the
\* state with both queues empty; every process ends complete and once in
\* terminated, a malformed one with its burst index one past its burst
\* count (it is moved to ready at an even index, dispatched with current
\* burst 0 and terminated).
MalformedTerminates ==
    (Plain /\ HasMalformed) =>
        <>(/\ pc = "done"
           /\ ready_queue = <<>>
           /\ waiting_queue = <<>>
           /\ \A p \in PIDs :
                 /\ procs[p].complete
                 /\ Count(terminated, p) = 1
                 /\ procs[p].current_burst_index =
                        IF Len(initial_bursts[p]) % 2 = 0
                        THEN Len(initial_bursts[p]) + 1
                        ELSE Len(initial_bursts[p]))

MalformedWitness ==
    /\ Plain
    /\ pc = "done"
    /\ idle_ticks > 0
    /\ \E p, q \in PIDs :
          /\ Len(initial_bursts[p]) = 2
          /\ procs[p].waiting_time > 0
          /\ procs[p].current_burst_index = 3
          /\ Len(initial_bursts[q]) = 0
          /\ procs[q].complete

\* The FCFS run on Scenario A has returned.
ScenarioADone ==
    scheduler = "FCFS" /\ pc = "done" /\ initial_bursts = ScenarioA

\* The figures of Scenario A other than B's turnaround time.
ScenarioARest ==
    /\ procs[1].response_time = 0
    /\ procs[1].turn_around_time = 4
    /\ procs[1].waiting_time = 0
    /\ procs[2].response_time = 4
    /\ procs[2].waiting_time = 0
    /\ result = <<1, 2>>
    /\ time = 6
    /\ cpu_util = time

\* C12 as stated: in Scenario A (FCFS on A=[4], B=[2]) B ends with
\* turnaround time 2.
ScenarioAStated ==
    ScenarioADone => (ScenarioARest /\ procs[2].turn_around_time = 2)

\* C12 as amended: the FCFS run on A=[4], B=[2] ends with A having response
\* time 0, turnaround time 4, waiting time 0 and B having response time 4,
\* turnaround time 6 (the clock at its completion), waiting time 0, with
\* total time 6 and cpu_util equal to the total time.
ScenarioAFCFS ==
    ScenarioADone => (ScenarioARest /\ procs[2].turn_around_time = 6)

ScenarioAWitness ==
    ScenarioADone /\ procs[2].complete /\ procs[2].turn_around_time = time

\* The step is an idle tick.
IdleTick == idle_ticks' = idle_ticks + 1

\* What one unit of elapsed time does to the waiting process p.
IdleDrains(p) ==
    LET P == procs[p]
        r == CurrentBurst(P)
        a == Min(1, r)
    IN  /\ procs'[p].waiting_time = P.waiting_time + a
        /\ IF r - a = 0
           THEN /\ procs'[p].current_burst_index = P.current_burst_index + 1
                /\ Count(ready_queue', p) = 1
                /\ Count(waiting_queue', p) = 0
           ELSE /\ procs'[p].current_burst_index = P.current_burst_index
                /\ CurrentBurst(procs'[p]) = r - 1
                /\ Count(ready_queue', p) = 0
                /\ Count(waiting_queue', p) = 1

IdleTickStep ==
    /\ IdleTick =>
          /\ pc = "loop"
          /\ ready_queue = <<>>
          /\ waiting_queue # <<>>
          /\ time' = time + 1
          /\ cpu_util' = cpu_util
          /\ terminated' = terminated
          /\ \A p \in PIDs :
                IF p \in Range(waiting_queue)
                THEN IdleDrains(p)
                ELSE procs'[p] = procs[p]
    /\ (AtIdle /\ Plain) => IdleTick

\* A process with bursts [c1, io, c2], io >= 1, is run alone.
AloneWithIO ==
    /\ Plain
    /\ pc # "init"
    /\ Len(initial_bursts) = 1
    /\ Len(initial_bursts[1]) = 3
    /\ initial_bursts[1][2] >= 1

AloneC1 == initial_bursts[1][1]
AloneIO == initial_bursts[1][2]
AloneC2 == initial_bursts[1][3]

\* The step at which the process run alone finishes its I/O burst.
AloneReenters ==
    (AloneWithIO /\ procs[1].current_burst_index = 1
                 /\ procs'[1].current_burst_index = 2) =>
        /\ IdleTick
        /\ ready_queue' = <<1>>
        /\ time' = AloneC1 + AloneIO
        /\ idle_ticks' = AloneIO
        /\ procs'[1].waiting_time = AloneIO

IdleAlone ==
    (AloneWithIO /\ pc = "done") =>
        /\ procs[1].turn_around_time = AloneC1 + AloneIO + AloneC2
        /\ time = AloneC1 + AloneIO + AloneC2
        /\ procs[1].response_time = 0
        /\ procs[1].waiting_time = AloneIO

\* C13: an idle tick is taken only when ready is empty and waiting is not;
\* it advances the clock by 1, leaves cpu_util unchanged and drains one unit
\* of I/O from every waiting process, moving those that reach 0 to ready;
\* so a process [c1, io, c2] (io >= 1) run alone re-enters ready at clock
\* c1+io with waiting time io and ends with turnaround time c1+io+c2 and
\* response time 0.
IdleTicking == []IdleAlone /\ [][IdleTickStep /\ AloneReenters]_vars

IdleTickingWitness ==
    /\ Plain
    /\ initial_bursts = ScenarioC
    /\ ready_queue = <<1>>
    /\ procs[1].current_burst_index = 2
    /\ idle_ticks = 3
    /\ time = 5
    /\ procs[1].waiting_time = 3

\* The processes that leave waiting in the step, in waiting-queue order.
Arrivals ==
    LET Left(p) == Count(waiting_queue', p) = 0
    IN  SelectSeq(waiting_queue, Left)

\* The process p is given the CPU in the step.
Runs(p) ==
    /\ procs[p].current_burst_index % 2 = 0
    /\ procs'[p].current_burst_index # procs[p].current_burst_index

FIFOStep ==
    (pc = "loop" /\ running = "FCFS" /\ pc' = "loop") =>
        /\ ready_queue' = (IF ready_queue = <<>>
                           THEN ready_queue
                           ELSE Tail(ready_queue)) \o Arrivals
        /\ (ready_queue # <<>>) => Runs(Head(ready_queue))
        /\ \A p \in PIDs :
              Runs(p) =>
                  /\ ready_queue # <<>>
                  /\ p = Head(ready_queue)
                  /\ procs'[p].current_burst_index =
                         procs[p].current_burst_index + 1
                  /\ time' = time + CurrentBurst(procs[p])
                  /\ cpu_util' = cpu_util + CurrentBurst(procs[p])
        /\ \A i \in 2..Len(ready_queue) :
              procs'[ready_queue[i]] = procs[ready_queue[i]]

\* C14: in an FCFS run the ready queue changes only by losing its head at a
\* dispatch and by gaining at its tail the processes back from I/O, in
\* waiting-queue order; only the head is ever given the CPU, and it runs its
\* whole current CPU burst in that one step while the other ready processes
\* are left as they are.
FCFSStrictFIFO == [][FIFOStep]_vars

FCFSStrictFIFOWitness ==
    /\ scheduler = "FCFS"
    /\ pc = "loop"
    /\ Len(ready_queue) >= 2
    /\ procs[ready_queue[1]].current_burst_index = 0
    /\ procs[ready_queue[Len(ready_queue)]].current_burst_index = 2
    /\ time > 0

\* The next step is a Round Robin dispatch that preempts.
AtPreemption ==
    /\ AtDispatch
    /\ running = "RR"
    /\ Preempts(procs[Head(ready_queue)], quantum)

\* C15: in a Round Robin dispatch that preempts, every process whose I/O
\* completes during the quantum is placed in the ready queue ahead of the
\* preempted process, which is pushed to the tail last.
RRPreemptionOrder ==
    [][AtPreemption =>
          ready_queue' = Tail(ready_queue) \o Arrivals
                             \o <<Head(ready_queue)>>]_vars

\* What d units of elapsed time do to the waiting process p.
Drains(p, d) ==
    LET P == procs[p]
        r == CurrentBurst(P)
        a == Min(d, r)
    IN  /\ procs'[p].waiting_time = P.waiting_time + a
        /\ IF r - a = 0
           THEN /\ procs'[p].current_burst_index = P.current_burst_index + 1
                /\ Count(ready_queue', p) = 1
                /\ Count(waiting_queue', p) = 0
           ELSE /\ procs'[p] = [P EXCEPT
                       !.burst_times[P.current_burst_index + 1] = r - a,
                       !.waiting_time = P.waiting_time + a]
                /\ Count(ready_queue', p) = 0
                /\ Count(waiting_queue', p) = 1

\* The ready queue as it is handed to update_waiting_processes in the step.
ReadyAtCall ==
    IF ready_queue = <<>> THEN ready_queue
    ELSE IF running = "RR" /\ Preempts(procs[Head(ready_queue)], quantum)
         THEN Append(Tail(ready_queue), Head(ready_queue))
         ELSE Tail(ready_queue)

TransitionStep ==
    (pc = "loop" /\ LoopRuns /\ pc' = "loop") =>
        LET d == time' - time
            StillWaits(p) == Count(waiting_queue', p) = 1
            Waited(p) == Count(waiting_queue, p) = 1
        IN  /\ \A p \in Range(waiting_queue) : Drains(p, d)
            /\ SelectSeq(waiting_queue, StillWaits) =
                   SelectSeq(waiting_queue', Waited)
            /\ ready_queue' =
                   IF running = "SJF"
                   THEN SortByBurst(procs', ReadyAtCall \o Arrivals)
                   ELSE ReadyAtCall \o Arrivals
            /\ \A i \in 2..Len(ready_queue) :
                  procs'[ready_queue[i]] = procs[ready_queue[i]]

\* C16: a call of update_waiting_processes with elapsed time d takes
\* min(d, remaining) from the I/O burst of every waiting process and adds
\* that amount to its waiting_time; exactly the processes whose burst
\* reached 0 leave waiting and are appended to ready in waiting-queue
\* order; the others stay in waiting in their order, and the processes
\* already in ready keep their positions and fields.
QueueTransition == [][TransitionStep]_vars

QueueTransitionWitness ==
    /\ pc = "loop"
    /\ \E p \in Range(ready_queue), q \in Range(waiting_queue) :
          /\ procs[p].current_burst_index = 2
          /\ procs[p].waiting_time = initial_bursts[p][2]
          /\ procs[p].waiting_time > 0
          /\ CurrentBurst(procs[q]) > 0
          /\ CurrentBurst(procs[q]) < initial_bursts[q][2]

\* The number of times p occurs in ready, waiting and terminated together.
Owners(p) ==
    Count(ready_queue, p) + Count(waiting_queue, p) + Count(terminated, p)

\* C17: at every loop boundary of an FCFS, SJF or Round Robin run each
\* input process occurs exactly once in ready, waiting and terminated taken
\* together; a process in ready has an even burst index below its burst
\* count, one in waiting an odd burst index, and a terminated one a burst
\* index equal to its burst count.
OwnershipParity ==
    (Plain /\ pc = "loop") =>
        \A p \in PIDs :
            LET idx == procs[p].current_burst_index
                len == Len(procs[p].burst_times)
            IN  /\ Owners(p) = 1
                /\ Count(ready_queue, p) = 1 => (idx % 2 = 0 /\ idx < len)
                /\ Count(waiting_queue, p) = 1 => idx % 2 = 1
                /\ Count(terminated, p) = 1 => idx = len

OwnershipParityWitness ==
    /\ Plain
    /\ pc = "loop"
    /\ ready_queue # <<>>
    /\ waiting_queue # <<>>
    /\ terminated # <<>>
    /\ procs[Head(ready_queue)].current_burst_index = 2

\* The figures reported for every process are those of the heap h.
SameOutcome(h) ==
    \A p \in PIDs :
        /\ procs[p].waiting_time = h[p].waiting_time
        /\ procs[p].turn_around_time = h[p].turn_around_time
        /\ procs[p].response_time = h[p].response_time
        /\ procs[p].complete = h[p].complete

\* The RR(10) pass or the final FCFS pass of an MLFQ run is under way.
LaterPass == scheduler = "MLFQ" /\ level \in {2, 3}

MLFQLaterPassIdle ==
    /\ LaterPass =>
          /\ ready_queue = <<>>
          /\ waiting_queue = <<>>
          /\ terminated = <<>>
          /\ idle_ticks = 0
          /\ SameOutcome(RRRun(Quantum1, initial_bursts))
    /\ (scheduler = "RR" /\ pc = "done") =>
          procs = RRRun(quantum, initial_bursts)

MLFQLaterPassStep ==
    /\ LaterPass => (procs' = procs /\ terminated' = <<>> /\ idle_ticks' = 0)
    /\ (scheduler = "MLFQ" /\ level = 1 /\ level' = 2) =>
          (ready_queue = <<>> /\ waiting_queue = <<>>)

\* C18: the Round Robin pass with quantum 5 of an MLFQ run ends with both
\* queues empty, so the RR(10) pass and the FCFS pass are handed no
\* process: they dispatch nothing, take no idle tick and leave every
\* process as it is; during them and when the MLFQ run has returned, every
\* process has the waiting_time, turn_around_time, response_time and
\* complete flag of a plain Round Robin run with quantum 5 on the same input.
MLFQDegenerates == []MLFQLaterPassIdle /\ [][MLFQLaterPassStep]_vars

MLFQDegeneratesWitness ==
    /\ scheduler = "MLFQ"
    /\ pc = "done"
    /\ \E p, q \in PIDs :
          /\ initial_bursts[p][1] > Quantum1
          /\ procs[p].complete
          /\ procs[q].waiting_time > 0
          /\ procs[q].turn_around_time > Quantum1

\* The I/O time the process p has behind it: what its I/O bursts have lost.
IoDone(p) ==
    TotalIoTime(initial_bursts[p]) - TotalIoTime(procs[p].burst_times)

\* C19: when an FCFS, SJF or Round Robin run ends, the waiting_time of each
\* process is the sum of the initial values of its I/O bursts; at every
\* moment of the run it is the I/O time the process has consumed so far, so
\* time in the ready queue adds nothing and no I/O time is counted twice or
\* lost.
WaitingIsIO ==
    /\ (Plain /\ pc = "done") =>
          \A p \in PIDs :
              procs[p].waiting_time = TotalIoTime(initial_bursts[p])
    /\ (Plain /\ pc # "init") =>
          \A p \in PIDs : procs[p].waiting_time = IoDone(p)

WaitingIsIOWitness ==
    /\ scheduler = "FCFS"
    /\ pc = "done"
    /\ \E p, q \in PIDs :
          /\ p < q
          /\ initial_bursts[p][1] = 0
          /\ Len(initial_bursts[p]) = 3
          /\ initial_bursts[p][2] > 0
          /\ initial_bursts[q][1] > initial_bursts[p][2]
          /\ procs[p].waiting_time = initial_bursts[p][2]
          /\ procs[q].response_time = 0

\* The CPU time the process p has been given: its finished CPU bursts and
\* what the current one has lost.
CpuDone(p) ==
    LET P == procs[p]
        Given(i) ==
            IF (i - 1) % 2 # 0 THEN 0
            ELSE IF i - 1 < P.current_burst_index
                 THEN initial_bursts[p][i]
                 ELSE initial_bursts[p][i] - P.burst_times[i]
    IN  SumSeq([i \in DOMAIN initial_bursts[p] |-> Given(i)])

\* C20: when an FCFS, SJF or Round Robin run ends, cpu_util is the sum of
\* the initial CPU bursts of all processes and the clock is cpu_util plus
\* the number of idle ticks; at every moment of the run cpu_util is the CPU
\* time handed out so far, whole bursts and Round Robin slices alike, so the
\* slices of a burst add up to its initial length.
CPUWorkConserved ==
    /\ (Plain /\ pc = "done") =>
          cpu_util = SumSeq([p \in PIDs |-> TotalBurstTime(initial_bursts[p])])
    /\ (Plain /\ pc # "init") =>
          /\ cpu_util = SumSeq([p \in PIDs |-> CpuDone(p)])
          /\ time = cpu_util + idle_ticks

CPUWorkConservedWitness ==
    /\ scheduler = "RR"
    /\ pc = "done"
    /\ idle_ticks > 0
    /\ cpu_util > quantum
    /\ \E p \in PIDs :
          /\ initial_bursts[p][1] > quantum
          /\ initial_bursts[p][1] % quantum # 0

====
